---- MODULE Spec2Model ----
(***************************************************************************)
(* A model of vortex/core/mapper.py: ResourceToDestinationMapper.          *)
(*                                                                         *)
(* Strings are sequences of one-character strings, so that a key can be    *)
(* compiled as a regular expression and matched against an identity.      *)
(* A rule table (a Python dict) is a sequence of [key, rule] entries with  *)
(* distinct keys, in the dict's iteration order.                           *)
(***************************************************************************)
EXTENDS Integers, Sequences, FiniteSets, TLC

VARIABLES
    tools,             \* loader.tools: the tool rule table
    users,             \* loader.users: the user rule table
    roles,             \* loader.roles: the role rule table
    destinations,      \* loader.destinations: the destination table
    default_inherits,  \* global_settings.get('default_inherits'); <<>> when unset
    cache,             \* the lru_cache behind lookup_tool_regex: pattern -> compiled
    registry,          \* app.job_config: destination id -> its definition (env, params)
    last,              \* the last completed call: its arguments and its outcome
    prev,              \* the call before it, when it had the same arguments
    calls,             \* how many calls of map_to_destination were made
    submitter,         \* the user whose jobs are mapped: email and roles, or None
    ranking,           \* the deployment's ranking of the destination ids, best first
    thr                \* the concurrent resolutions: each one's position in its lookup

vars == <<tools, users, roles, destinations, default_inherits, cache, registry,
          last, prev, calls, submitter, ranking, thr>>

\* ------------------------------------------------------------------ bounds

\* The most entries a rule table holds.
MaxKeys == 2
\* The most characters an identity (tool id, user email, role name) has.
MaxLen == 2

\* ------------------------------------------------------------------ values

\* Python's None.
None == [none |-> TRUE]

\* Python's truth test of a value that is None or an object.
Truthy(x) == x # None

Range(s) == {s[i] : i \in 1..Len(s)}

\* The element of a set of one element: The({ e(x) : x \in {v} }) is e(v), with
\* v computed once.
The(S) == CHOOSE x \in S : TRUE

\* The characters of an identity.
IdChars == {"a", "b"}

\* The identities: the non-empty strings over IdChars of at most MaxLen characters.
Idents == UNION {[1..n -> IdChars] : n \in 1..MaxLen}

\* The keys a rule table may hold: literal identities, patterns with the
\* metacharacters "." and "*", a key that is no valid pattern ("*": nothing to
\* repeat) and a key no identity matches ("d").
Patterns ==
    { <<"a">>, <<"a", "b">>, <<"b", "*">>, <<".", "b">>, <<"*">>, <<"d">> }

\* ------------------------------------------------------- regular expressions

\* What re.compile raises on: a "*" with nothing to repeat, or a repeated "*".
BadPattern == [error |-> "re.error"]

WellFormed(p) == \A i \in 1..Len(p) : p[i] = "*" => (i > 1 /\ p[i-1] # "*")

\* The atoms of a well-formed pattern: a character (or ".") and whether a "*"
\* follows it.
RECURSIVE Atoms(_)
Atoms(p) ==
    IF p = <<>> THEN <<>>
    ELSE IF Len(p) >= 2 /\ p[2] = "*"
         THEN <<[ch |-> p[1], star |-> TRUE]>> \o Atoms(SubSeq(p, 3, Len(p)))
         ELSE <<[ch |-> p[1], star |-> FALSE]>> \o Atoms(Tail(p))

\* re.compile(key)
CompileToolRegex(key) ==
    IF WellFormed(key) THEN [error |-> "", atoms |-> Atoms(key)] ELSE BadPattern

\* Whether the atoms match s from position j on, consuming some prefix of the rest.
RECURSIVE MatchAt(_, _, _)
MatchAt(at, s, j) ==
    IF at = <<>> THEN TRUE
    ELSE LET a   == Head(at)
             hit == j <= Len(s) /\ (a.ch = "." \/ a.ch = s[j])
         IN  IF a.star
             THEN MatchAt(Tail(at), s, j) \/ (hit /\ MatchAt(at, s, j + 1))
             ELSE hit /\ MatchAt(Tail(at), s, j + 1)

\* compiled.match(name): anchored at the start of name, not at its end.
Match(compiled, name) == MatchAt(compiled.atoms, name, 1)

\* --------------------------------------------------------------- rule tables

Keys(table) == {table[i].key : i \in 1..Len(table)}

\* dict.get(name): the rule stored under the key, or None.
Get(table, name) ==
    IF name \in Keys(table)
    THEN (CHOOSE e \in Range(table) : e.key = name).rule
    ELSE None

\* A cache with one slot for all keys: the compilation is stored under every
\* key the cache holds.
CachePutShared(c, key, compiled) == [k \in DOMAIN c \cup {key} |-> compiled]

\* The cache with the compilation of key stored under key.
CachePut(c, key, compiled) ==
    [k \in DOMAIN c \cup {key} |-> IF k = key THEN compiled ELSE c[k]]

\* lookup_tool_regex(key) on cache c: the cached compilation on a hit, else
\* re.compile(key), which is cached unless it raises.
LookupToolRegex(c, key) ==
    IF key \in DOMAIN c
    THEN [compiled |-> c[key], cache |-> c]
    ELSE LET compiled == CompileToolRegex(key)
         IN  [compiled |-> compiled,
              cache    |-> IF compiled = BadPattern THEN c
                           ELSE CachePut(c, key, compiled)]

\* A fallback that ignores the configured key.
FallbackNone(table) == None

\* The end of _find_resource_by_id_regex: the rule under the default_inherits
\* key of the same table when one is configured, else None.
Fallback(table) ==
    IF default_inherits # <<>> THEN Get(table, default_inherits) ELSE None

\* The loop of _find_resource_by_id_regex from the i-th key on, and what follows
\* it: the first key whose pattern matches wins; a key that does not compile
\* raises; with no match the default_inherits key is looked up, when one is set.
RECURSIVE ScanKeys(_, _, _, _)
ScanKeys(table, name, i, c) ==
    IF i > Len(table)
    THEN [outcome |-> "return", value |-> Fallback(table), cache |-> c]
    ELSE LET r == LookupToolRegex(c, table[i].key)
         IN  IF r.compiled = BadPattern
             THEN [outcome |-> "re.error", value |-> None, cache |-> r.cache]
             ELSE IF Match(r.compiled, name)
                  THEN [outcome |-> "return", value |-> table[i].rule,
                        cache |-> r.cache]
                  ELSE ScanKeys(table, name, i + 1, r.cache)

\* A scan that takes the keys in the reverse of the table's order.
ScanTableReversed(table, name, c) ==
    ScanKeys([i \in 1..Len(table) |-> table[Len(table) + 1 - i]], name, 1, c)

\* The scan of every key of the table, from the first.
ScanTable(table, name, c) == ScanKeys(table, name, 1, c)

\* A lookup without the shortcut for an exact key.
FindResourceNoShortcut(table, name, c) == ScanTable(table, name, c)

\* _find_resource_by_id_regex(resource_list, resource_name) on cache c.
FindResourceByIdRegex(table, name, c) ==
    IF Truthy(Get(table, name))
    THEN [outcome |-> "return", value |-> Get(table, name), cache |-> c]
    ELSE ScanTable(table, name, c)

\* ----------------------------------------------------------------- resources

\* A function's override: g's entries over f's.
Override(f, g) ==
    [k \in DOMAIN f \cup DOMAIN g |-> IF k \in DOMAIN g THEN g[k] ELSE f[k]]

\* The empty mapping.
Empty == [k \in {} |-> 0]

\* A resource: its id, the fields it sets to a literal (fields), the fields it
\* sets to a deferred expression (exprs: "job", the job's size, or "self", twice
\* the cores of the resource under evaluation), its env and its params.
Resource(id, fields, exprs, env, params) ==
    [id |-> id, fields |-> fields, exprs |-> exprs, env |-> env, params |-> params]

\* A field's literal value, 0 when the resource does not set it.
Field(r, f) == IF f \in DOMAIN r.fields THEN r.fields[f] ELSE 0

\* The value of a deferred expression in a context.
ExprValue(e, context) ==
    IF e = "job" THEN context.job ELSE 2 * Field(context.resource, "cores")

\* resource.evaluate_resource_requirements(context): the expressions that read
\* the job become literals; those that read the combined resource stay.
EvaluateOne(r, context) ==
    LET now == {f \in DOMAIN r.exprs : r.exprs[f] = "job"}
    IN  [r EXCEPT
           !.fields = Override(r.fields,
                               [f \in now |-> ExprValue(r.exprs[f], context)]),
           !.exprs  = [f \in DOMAIN r.exprs \ now |-> r.exprs[f]]]

\* resource.evaluate_expressions(context): every expression left becomes a literal.
EvaluateExpressions(r, context) ==
    [r EXCEPT
       !.fields = Override(r.fields,
                           [f \in DOMAIN r.exprs |-> ExprValue(r.exprs[f], context)]),
       !.exprs  = Empty]

\* a.combine(b): b layered on a. What b sets, as a literal or as an expression,
\* overrides a; what b leaves unset is inherited from a.
Combine(a, b) ==
    LET setB == DOMAIN b.fields \cup DOMAIN b.exprs
    IN  [id     |-> a.id \o <<"+">> \o b.id,
         fields |-> Override([f \in DOMAIN a.fields \ setB |-> a.fields[f]], b.fields),
         exprs  |-> Override([f \in DOMAIN a.exprs \ setB |-> a.exprs[f]], b.exprs),
         env    |-> Override(a.env, b.env),
         params |-> Override(a.params, b.params)]

\* resource.matches(destination, context): the destination has the capacity asked for.
Matches(r, dest, context) ==
    Field(r, "cores") <= dest.cores /\ Field(r, "mem") <= dest.mem

\* ------------------------------------------------------------ the pipeline

\* evaluate_resource_requirements(resources, context): each resource evaluated
\* in a context rebound to it; None has no such method.
RECURSIVE EvaluateFrom(_, _, _)
EvaluateFrom(resources, i, context) ==
    IF i > Len(resources) THEN [outcome |-> "return", value |-> <<>>]
    ELSE IF resources[i] = None
         THEN [outcome |-> "AttributeError", value |-> <<>>]
         ELSE LET ctx  == [context EXCEPT !.resource = resources[i]]
                  one  == EvaluateOne(resources[i], ctx)
                  rest == EvaluateFrom(resources, i + 1, ctx)
              IN  [outcome |-> rest.outcome,
                   value   |-> IF rest.outcome = "return"
                               THEN <<one>> \o rest.value ELSE <<>>]

EvaluateResourceRequirements(resources, context) ==
    EvaluateFrom(resources, 1, context)

\* The loop of combine_resources: acc.combine(r) for each r of rest, in order.
RECURSIVE FoldCombine(_, _)
FoldCombine(acc, rest) ==
    IF rest = <<>> THEN acc ELSE FoldCombine(Combine(acc, Head(rest)), Tail(rest))

\* A fold that layers the list so far on each later resource: r.combine(acc).
RECURSIVE FoldCombineUnder(_, _)
FoldCombineUnder(acc, rest) ==
    IF rest = <<>> THEN acc
    ELSE FoldCombineUnder(Combine(Head(rest), acc), Tail(rest))

CombineResourcesUnder(resources) ==
    IF resources = <<>>
    THEN [outcome |-> "IndexError", value |-> None]
    ELSE [outcome |-> "return",
          value   |-> FoldCombineUnder(Head(resources), Tail(resources))]

\* combine_resources(resources): resources[0] raises on an empty list.
CombineResources(resources) ==
    IF resources = <<>>
    THEN [outcome |-> "IndexError", value |-> None]
    ELSE [outcome |-> "return",
          value   |-> FoldCombine(Head(resources), Tail(resources))]

\* rank(resource, destinations, context): resource.rank_destinations, a total
\* order (best first) the deployment supplies: here the order of ranking.
Rank(r, matches, context) ==
    LET ids == {matches[i].id : i \in 1..Len(matches)}
        byId(id) == CHOOSE d \in Range(matches) : d.id = id
        ordered == SelectSeq(ranking, LAMBDA id : id \in ids)
    IN  [i \in 1..Len(ordered) |-> byId(ordered[i])]

\* A selection that ranks every entry of the table, matching or not.
FindBestMatchUnfiltered(r, dests, context) ==
    LET rankings == Rank(r, dests, context)
    IN  IF rankings # <<>> THEN rankings[1] ELSE None

\* find_best_match(resource, destinations, context)
FindBestMatch(r, dests, context) ==
    LET matches  == SelectSeq(dests, LAMBDA d : Matches(r, d, context))
        rankings == Rank(r, matches, context)
    IN  IF rankings # <<>> THEN rankings[1] ELSE None

\* Role lookups that take the deleted roles too.
RECURSIVE FirstRoleResourceOfAll(_, _, _, _)
FirstRoleResourceOfAll(all_roles, i, c, looked) ==
    IF i > Len(all_roles)
    THEN [outcome |-> "return", value |-> None, cache |-> c, looked |-> looked]
    ELSE LET r   == FindResourceByIdRegex(roles, all_roles[i].name, c)
             now == Append(looked, all_roles[i].name)
         IN  IF r.outcome # "return" \/ Truthy(r.value)
             THEN [outcome |-> r.outcome, value |-> r.value,
                   cache |-> r.cache, looked |-> now]
             ELSE FirstRoleResourceOfAll(all_roles, i + 1, r.cache, now)

\* The role lookups of _find_matching_resources from the i-th role on: the
\* generator over the roles that are not deleted is consumed by next() up to
\* its first result that is not None. looked lists the names looked up.
RECURSIVE FirstRoleResource(_, _, _, _)
FirstRoleResource(all_roles, i, c, looked) ==
    IF i > Len(all_roles)
    THEN [outcome |-> "return", value |-> None, cache |-> c, looked |-> looked]
    ELSE IF all_roles[i].deleted
         THEN FirstRoleResource(all_roles, i + 1, c, looked)
         ELSE LET r   == FindResourceByIdRegex(roles, all_roles[i].name, c)
                  now == Append(looked, all_roles[i].name)
              IN  IF r.outcome # "return" \/ Truthy(r.value)
                  THEN [outcome |-> r.outcome, value |-> r.value,
                        cache |-> r.cache, looked |-> now]
                  ELSE FirstRoleResource(all_roles, i + 1, r.cache, now)

\* A list with x appended when x is not None.
AppendIf(list, x) == IF Truthy(x) THEN Append(list, x) ELSE list

\* _find_matching_resources(tool, user) on cache c. A lookup that raises ends it.
FindMatchingResources(tool, user, c) ==
    LET t == FindResourceByIdRegex(tools, tool, c)
        failed(r, looked) ==
            [outcome |-> r.outcome, value |-> <<>>, cache |-> r.cache,
             looked |-> looked]
    IN  IF t.outcome # "return" THEN failed(t, <<>>)
        ELSE IF ~Truthy(user)
        THEN [outcome |-> "return", value |-> <<t.value>>, cache |-> t.cache,
              looked |-> <<>>]
        ELSE LET u == FindResourceByIdRegex(users, user.email, t.cache)
             IN  IF u.outcome # "return" THEN failed(u, <<>>)
                 ELSE LET ro == FirstRoleResource(user.roles, 1, u.cache, <<>>)
                      IN  IF ro.outcome # "return" THEN failed(ro, ro.looked)
                          ELSE [outcome |-> "return",
                                value   |-> AppendIf(AppendIf(<<t.value>>, u.value),
                                                     ro.value),
                                cache   |-> ro.cache,
                                looked  |-> ro.looked]

\* The names env may set, in the order env.items() lists them.
EnvNames == <<"X", "Y">>

\* [dict(name=k, value=v) for (k, v) in env.items()]
EnvItems(env) ==
    LET names == SelectSeq(EnvNames, LAMBDA n : n \in DOMAIN env)
    IN  [i \in 1..Len(names) |-> [name |-> names[i], value |-> env[names[i]]]]

\* Step 7 of map_to_destination on the definition the registry hands out:
\* destination.env += ..., destination.params.update(...).
Materialize(def, evaluated) ==
    [def EXCEPT !.env    = def.env \o EnvItems(evaluated.env),
                !.params = Override(def.params, evaluated.params)]

\* The registry after the definition it handed out was changed to def: a
\* registry that hands out copies keeps its own, one that hands out the
\* definition itself holds the changed one.
RegistryAfter(reg, def) ==
    IF reg.copies THEN reg ELSE [reg EXCEPT !.defs[def.id] = def]

\* What map_to_destination leaves when it raises at a step.
Raised(outcome, step, found, reg) ==
    [outcome |-> outcome, step |-> step, candidates |-> found.value,
     evaluated |-> None, result |-> None, message |-> <<>>,
     cache |-> found.cache, registry |-> reg]

\* A step 7 that returns None instead of raising.
ReturnDestinationOrNone(found, evaluated, destination, reg) ==
    IF Truthy(destination)
    THEN LET def == Materialize(reg.defs[destination.id], evaluated)
         IN  [outcome |-> "return", step |-> "done", candidates |-> found.value,
              evaluated |-> evaluated, result |-> def, message |-> <<>>,
              cache |-> found.cache, registry |-> RegistryAfter(reg, def)]
    ELSE [outcome |-> "return", step |-> "done",
          candidates |-> found.value, evaluated |-> evaluated, result |-> None,
          message |-> <<>>, cache |-> found.cache, registry |-> reg]

\* Step 7 of map_to_destination: the registry's definition of the destination
\* found, with the evaluated resource's env and params, or JobMappingException
\* naming the evaluated resource's id.
ReturnDestination(found, evaluated, destination, reg) ==
    IF Truthy(destination)
    THEN LET def == Materialize(reg.defs[destination.id], evaluated)
         IN  [outcome |-> "return", step |-> "done", candidates |-> found.value,
              evaluated |-> evaluated, result |-> def, message |-> <<>>,
              cache |-> found.cache, registry |-> RegistryAfter(reg, def)]
    ELSE [outcome |-> "JobMappingException", step |-> "select",
          candidates |-> found.value, evaluated |-> evaluated, result |-> None,
          message |-> evaluated.id, cache |-> found.cache, registry |-> reg]

\* Steps 5 and 6 of map_to_destination: the combined resource's remaining
\* expressions are evaluated in a context rebound to it, and the best match of
\* the result is looked for in the destination table.
SelectDestination(found, combined, context, reg) ==
    The({ ReturnDestination(found, evaluated,
                            FindBestMatch(evaluated, destinations,
                                          [context EXCEPT !.resource = evaluated]),
                            reg) :
          evaluated \in {EvaluateExpressions(combined,
                                             [context EXCEPT !.resource = combined])} })

\* Step 4 of map_to_destination, and what follows it.
CombineAndSelect(found, each, context, reg) ==
    The({ IF combined.outcome # "return"
          THEN Raised(combined.outcome, "combine", found, reg)
          ELSE SelectDestination(found, combined.value, context, reg) :
          combined \in {CombineResources(each)} })

\* Step 3 of map_to_destination, and what follows it.
EvaluateAndCombine(found, context, reg) ==
    The({ IF each.outcome # "return"
          THEN Raised(each.outcome, "evaluate", found, reg)
          ELSE CombineAndSelect(found, each.value, context, reg) :
          each \in {EvaluateResourceRequirements(found.value, context)} })

\* map_to_destination(app, tool, user, job) on cache c and registry reg: the
\* outcome, the step that raised, the candidate list, the evaluated resource,
\* the destination returned, the id the error message names, and the cache and
\* the registry it leaves.
MapToDestination(tool, user, job, c, reg) ==
    The({ IF found.outcome # "return"
          THEN Raised(found.outcome, "resolve", found, reg)
          ELSE EvaluateAndCombine(found,
                                  [tool |-> tool, user |-> user, job |-> job,
                                   resource |-> None],
                                  reg) :
          found \in {FindMatchingResources(tool, user, c)} })

\* ------------------------------------------------------ the tables' contents

\* The sequences of at most MaxKeys distinct keys out of keys.
KeyLists(keys) ==
    {ks \in UNION {[1..n -> keys] : n \in 0..MaxKeys} :
        \A i, j \in 1..Len(ks) : i # j => ks[i] # ks[j]}

\* A rule that sets nothing, stored under key.
BareRule(key) == Resource(key, Empty, Empty, Empty, Empty)

\* The table with a bare rule under each key of ks.
BareTable(ks) == [i \in 1..Len(ks) |-> [key |-> ks[i], rule |-> BareRule(ks[i])]]

\* No cached compilation.
EmptyCache == [k \in {} |-> BadPattern]

\* No call yet.
NoCall == [op |-> "none"]

\* ------------------------------------------------- the pattern index alone

\* A mapper whose tool table is any table over Patterns; nothing was called yet.
InitLookup ==
    /\ tools \in {BareTable(ks) : ks \in KeyLists(Patterns)}
    /\ users = <<>>
    /\ roles = <<>>
    /\ destinations = <<>>
    /\ default_inherits \in {<<>>, <<"d">>, <<"a">>}
    /\ submitter = None
    /\ cache = EmptyCache
    /\ registry = [copies |-> TRUE, defs |-> Empty]
    /\ ranking = <<>>
    /\ last = NoCall
    /\ prev = NoCall
    /\ calls = 0
    /\ thr = <<>>

\* A call of _find_resource_by_id_regex(self.tools, name).
LookupCall ==
    \E name \in Idents :
        \E r \in {FindResourceByIdRegex(tools, name, cache)} :
            /\ cache' = r.cache
            /\ last' = [op |-> "lookup", table |-> tools, name |-> name,
                        outcome |-> r.outcome, value |-> r.value, before |-> cache]
            /\ UNCHANGED <<tools, users, roles, destinations, default_inherits,
                           registry, prev, calls, submitter, ranking, thr>>

NextLookup == LookupCall

SpecLookup == InitLookup /\ [][NextLookup]_vars

\* ------------------------------------------------------------ the mapper

\* The most calls of map_to_destination in a run.
MaxCalls == 2

\* What the rules of a deployment set: literals, an expression over the job, an
\* expression over the combined resource, env entries and params.
ToolContents ==
    { [fields |-> ("cores" :> 2) @@ ("mem" :> 4), exprs |-> Empty,
       env |-> ("X" :> 1), params |-> ("P" :> 1)],
      [fields |-> ("cores" :> 2), exprs |-> ("mem" :> "self"),
       env |-> Empty, params |-> Empty],
      [fields |-> Empty, exprs |-> ("cores" :> "job"),
       env |-> ("Y" :> 1), params |-> Empty] }

UserContents ==
    { [fields |-> ("mem" :> 8), exprs |-> Empty, env |-> ("X" :> 2),
       params |-> Empty] }

RoleContents ==
    { [fields |-> ("cores" :> 4), exprs |-> Empty, env |-> Empty,
       params |-> ("P" :> 2)] }

\* The tables of at most one entry with a key of keys and a content of contents.
SmallTables(keys, contents) ==
    {<<>>} \cup
    { <<[key |-> k, rule |-> Resource(k, x.fields, x.exprs, x.env, x.params)]>> :
        k \in keys, x \in contents }

\* The destination tables: entries with the capacity they offer.
Small == [id |-> "small", cores |-> 2, mem |-> 4]
Big   == [id |-> "big", cores |-> 8, mem |-> 16]
DestinationTables == { <<>>, <<Small>>, <<Small, Big>>, <<Big, [Small EXCEPT !.mem = 8]>> }

\* The registry's definitions: a destination with its own env and params.
Definitions ==
    [id \in {"small", "big"} |->
        [id |-> id, env |-> <<[name |-> "H", value |-> 0]>>, params |-> ("P" :> 0)]]

\* The submitters: none, or a user with at most one role, deleted or not.
Submitters ==
    {None} \cup
    { [email |-> <<"a">>, roles |-> rs] :
        rs \in {<<>>, <<[name |-> <<"b">>, deleted |-> FALSE]>>,
                <<[name |-> <<"b">>, deleted |-> TRUE]>>} }

\* A mapper as constructed from a loader, with the registry and the ranking of
\* its deployment; nothing was called yet.
Init ==
    /\ tools \in SmallTables({<<"a">>, <<"*">>}, ToolContents)
    /\ users \in SmallTables({<<"a">>}, UserContents)
    /\ roles \in SmallTables({<<"b">>}, RoleContents)
    /\ destinations \in DestinationTables
    /\ default_inherits \in {<<>>, <<"a">>}
    /\ submitter \in Submitters
    /\ cache = EmptyCache
    /\ registry \in {[copies |-> b, defs |-> Definitions] : b \in BOOLEAN}
    /\ ranking \in {<<"small", "big">>, <<"big", "small">>}
    /\ last = NoCall
    /\ prev = NoCall
    /\ calls = 0
    /\ thr = <<>>

\* Whether call is a call of map_to_destination with these arguments.
SameCall(call, tool, job) == call.op = "map" /\ call.tool = tool /\ call.job = job

\* A call of map_to_destination(app, tool, user, job) for the submitter.
MapCall ==
    /\ calls < MaxCalls
    /\ \E tool \in {<<"a">>, <<"b">>}, job \in {1, 8} :
        \E r \in {MapToDestination(tool, submitter, job, cache, registry)} :
            /\ cache' = r.cache
            /\ registry' = r.registry
            /\ last' = [op |-> "map", tool |-> tool, user |-> submitter, job |-> job,
                        outcome |-> r.outcome, step |-> r.step,
                        candidates |-> r.candidates, evaluated |-> r.evaluated,
                        result |-> r.result, message |-> r.message]
            /\ prev' = IF SameCall(last, tool, job) THEN last ELSE NoCall
            /\ calls' = calls + 1
            /\ UNCHANGED <<tools, users, roles, destinations, default_inherits,
                           submitter, ranking, thr>>

Next == MapCall

Spec == Init /\ [][Next]_vars

\* ---------------------------------------------------- the resolver alone

\* The most roles a user has.
MaxRoles == 3

\* The table of a scope ("T", "U" or "R") with a bare rule under each key of
\* ks, the rule's id naming the scope and the key.
ScopedTable(scope, ks) ==
    [i \in 1..Len(ks) |-> [key |-> ks[i], rule |-> BareRule(<<scope>> \o ks[i])]]

\* The roles a user may have, and the lists of at most MaxRoles of them.
Roles == [name : {<<"a">>, <<"b">>}, deleted : BOOLEAN]
RoleLists == UNION {[1..n -> Roles] : n \in 0..MaxRoles}

\* A mapper with any role table over three keys; nothing was called yet.
InitResolve ==
    /\ tools \in {ScopedTable("T", ks) : ks \in {<<>>, << <<"a">> >>}}
    /\ users \in {ScopedTable("U", ks) : ks \in {<<>>, << <<"a">> >>}}
    /\ roles \in {ScopedTable("R", ks) : ks \in KeyLists({<<"a">>, <<"b">>, <<"*">>})}
    /\ destinations = <<>>
    /\ default_inherits \in {<<>>, <<"a">>}
    /\ submitter \in {None} \cup {[email |-> <<"a">>, roles |-> rs] : rs \in RoleLists}
    /\ cache = EmptyCache
    /\ registry = [copies |-> TRUE, defs |-> Empty]
    /\ ranking = <<>>
    /\ last = NoCall
    /\ prev = NoCall
    /\ calls = 0
    /\ thr = <<>>

\* A call of _find_matching_resources(tool, user) for the submitter.
ResolveCall ==
    \E tool \in {<<"a">>, <<"b">>} :
        \E r \in {FindMatchingResources(tool, submitter, cache)} :
            /\ cache' = r.cache
            /\ last' = [op |-> "resolve", tool |-> tool, user |-> submitter,
                        outcome |-> r.outcome, value |-> r.value,
                        looked |-> r.looked]
            /\ UNCHANGED <<tools, users, roles, destinations, default_inherits,
                           registry, prev, calls, submitter, ranking, thr>>

NextResolve == ResolveCall

SpecResolve == InitResolve /\ [][NextResolve]_vars

\* ------------------------------------------- evaluation and combination alone

\* The most candidates a list holds.
MaxList == 3

\* The candidates: rules that set both fields, one field, no field, or a field
\* to an expression.
Candidates ==
    { Resource(<<"A">>, ("cores" :> 2) @@ ("mem" :> 4), Empty, ("X" :> 1), Empty),
      Resource(<<"B">>, ("mem" :> 8), Empty, Empty, ("P" :> 1)),
      Resource(<<"C">>, ("cores" :> 4), Empty, ("X" :> 2), Empty),
      Resource(<<"D">>, Empty, Empty, Empty, Empty),
      Resource(<<"E">>, Empty, ("mem" :> "self"), Empty, Empty),
      Resource(<<"F">>, ("mem" :> 2), ("cores" :> "job"), Empty, Empty) }

\* The lists _find_matching_resources can hand on: one to MaxList candidates,
\* the first of which may be None.
CandidateLists ==
    {l \in UNION {[1..n -> Candidates \cup {None}] : n \in 1..MaxList} :
        \A i \in 2..Len(l) : l[i] # None}

\* A candidate list was found for a job; it is neither evaluated nor combined yet.
InitCombine ==
    /\ tools = <<>>
    /\ users = <<>>
    /\ roles = <<>>
    /\ destinations = <<>>
    /\ default_inherits = <<>>
    /\ submitter = None
    /\ cache = EmptyCache
    /\ registry = [copies |-> TRUE, defs |-> Empty]
    /\ ranking = <<>>
    /\ last \in {[op |-> "found", value |-> l, job |-> j] :
                    l \in CandidateLists, j \in {1, 8}}
    /\ prev = NoCall
    /\ calls = 0
    /\ thr = <<>>

\* The call of evaluate_resource_requirements(resource_list, context) on the
\* list found.
EvaluateCall ==
    /\ last.op = "found"
    /\ \E r \in {EvaluateResourceRequirements(
                    last.value,
                    [tool |-> <<"a">>, user |-> None, job |-> last.job,
                     resource |-> None])} :
          last' = [op |-> "evaluated", list |-> last.value, outcome |-> r.outcome,
                   value |-> r.value]
    /\ UNCHANGED <<tools, users, roles, destinations, default_inherits, cache,
                   registry, prev, calls, submitter, ranking, thr>>

\* The call of combine_resources(evaluated_resources) on the evaluated list.
CombineCall ==
    /\ last.op = "evaluated"
    /\ last.outcome = "return"
    /\ \E r \in {CombineResources(last.value)} :
          last' = [op |-> "combined", list |-> last.value, outcome |-> r.outcome,
                   value |-> r.value]
    /\ UNCHANGED <<tools, users, roles, destinations, default_inherits, cache,
                   registry, prev, calls, submitter, ranking, thr>>

NextCombine == EvaluateCall \/ CombineCall

SpecCombine == InitCombine /\ [][NextCombine]_vars

\* ------------------------------------------------- concurrent resolutions

\* How many resolutions run at once, each in a thread of its own.
NThreads == 2

Threads == 1..NThreads

\* A thread outside _find_resource_by_id_regex.
Idle == [pc |-> "idle"]

\* A thread back from _find_resource_by_id_regex(table, name).
Done(t, outcome, value) ==
    [pc |-> "done", table |-> thr[t].table, name |-> thr[t].name,
     outcome |-> outcome, value |-> value]

\* A thread at the i-th key of the loop, at pc: "get" before the cache is read,
\* "compile" after a miss, "store" with a compilation to cache, "match" with a
\* compilation to try.
Scanning(t, i, pc, compiled) ==
    [pc |-> pc, table |-> thr[t].table, name |-> thr[t].name, i |-> i,
     compiled |-> compiled]

\* A thread past the i-th key: at the next key, or back with the fallback.
NextKey(t, i) ==
    IF i + 1 > Len(tools)
    THEN Done(t, "return", Fallback(tools))
    ELSE Scanning(t, i + 1, "get", BadPattern)

\* The tool table is any table over three keys; no thread is in a lookup.
InitConc ==
    /\ tools \in {BareTable(ks) : ks \in KeyLists({<<"a">>, <<"b", "*">>, <<"*">>})}
    /\ users = <<>>
    /\ roles = <<>>
    /\ destinations = <<>>
    /\ default_inherits \in {<<>>, <<"a">>}
    /\ submitter = None
    /\ cache = EmptyCache
    /\ registry = [copies |-> TRUE, defs |-> Empty]
    /\ ranking = <<>>
    /\ last = NoCall
    /\ prev = NoCall
    /\ calls = 0
    /\ thr = [t \in Threads |-> Idle]

ConcFrame ==
    UNCHANGED <<tools, users, roles, destinations, default_inherits, registry,
                last, prev, calls, submitter, ranking>>

\* A thread enters _find_resource_by_id_regex(self.tools, name): an exact key
\* returns at once, else the loop over the keys begins.
Enter(t) ==
    /\ thr[t].pc = "idle"
    /\ \E name \in {<<"a">>, <<"b">>, <<"a", "b">>} :
        thr' = [thr EXCEPT ![t] =
                  IF Truthy(Get(tools, name))
                  THEN [pc |-> "done", table |-> tools, name |-> name,
                        outcome |-> "return", value |-> Get(tools, name)]
                  ELSE IF tools = <<>>
                  THEN [pc |-> "done", table |-> tools, name |-> name,
                        outcome |-> "return", value |-> Fallback(tools)]
                  ELSE [pc |-> "get", table |-> tools, name |-> name, i |-> 1,
                        compiled |-> BadPattern]]
    /\ cache' = cache
    /\ ConcFrame

\* lookup_tool_regex(key) reads the cache: a hit hands out the cached
\* compilation, a miss goes on to compile.
CacheGet(t) ==
    /\ thr[t].pc = "get"
    /\ LET key == tools[thr[t].i].key
       IN  thr' = [thr EXCEPT ![t] =
                     IF key \in DOMAIN cache
                     THEN Scanning(t, thr[t].i, "match", cache[key])
                     ELSE Scanning(t, thr[t].i, "compile", BadPattern)]
    /\ cache' = cache
    /\ ConcFrame

\* re.compile(key), outside the cache: a key that is no pattern raises.
Compile(t) ==
    /\ thr[t].pc = "compile"
    /\ LET compiled == CompileToolRegex(tools[thr[t].i].key)
       IN  thr' = [thr EXCEPT ![t] =
                     IF compiled = BadPattern
                     THEN Done(t, "re.error", None)
                     ELSE Scanning(t, thr[t].i, "store", compiled)]
    /\ cache' = cache
    /\ ConcFrame

\* lookup_tool_regex(key) stores what it compiled, whether or not another
\* thread stored the same key meanwhile.
Store(t) ==
    /\ thr[t].pc = "store"
    /\ cache' = CachePut(cache, tools[thr[t].i].key, thr[t].compiled)
    /\ thr' = [thr EXCEPT ![t] = Scanning(t, thr[t].i, "match", thr[t].compiled)]
    /\ ConcFrame

\* compiled.match(resource_name): the key's rule on a match, else the next key.
TryMatch(t) ==
    /\ thr[t].pc = "match"
    /\ thr' = [thr EXCEPT ![t] =
                 IF Match(thr[t].compiled, thr[t].name)
                 THEN Done(t, "return", tools[thr[t].i].rule)
                 ELSE NextKey(t, thr[t].i)]
    /\ cache' = cache
    /\ ConcFrame

\* The caller takes the result; the thread is free for another lookup.
Leave(t) ==
    /\ thr[t].pc = "done"
    /\ thr' = [thr EXCEPT ![t] = Idle]
    /\ cache' = cache
    /\ ConcFrame

NextConc ==
    \E t \in Threads :
        \/ Enter(t)
        \/ CacheGet(t)
        \/ Compile(t)
        \/ Store(t)
        \/ TryMatch(t)
        \/ Leave(t)

SpecConc == InitConc /\ [][NextConc]_vars

\* ------------------------------------------------ claims on the pattern index

\* Whether the atoms match exactly the string s, by the patterns' meaning: a
\* starred atom stands for any number of its character, "." for any character.
RECURSIVE Denotes(_, _)
Denotes(at, s) ==
    IF at = <<>> THEN s = <<>>
    ELSE LET a   == Head(at)
             hit == s # <<>> /\ (a.ch = "." \/ a.ch = Head(s))
         IN  IF a.star
             THEN Denotes(Tail(at), s) \/ (hit /\ Denotes(at, Tail(s)))
             ELSE hit /\ Denotes(Tail(at), Tail(s))

\* A key matches an identity when it is a valid pattern that denotes some prefix
\* of the identity.
KeyMatches(key, name) ==
    /\ WellFormed(key)
    /\ \E n \in 0..Len(name) : Denotes(Atoms(key), SubSeq(name, 1, n))

\* The places of the keys of a table that match name, and of those that are no
\* valid pattern.
MatchingAt(table, name) == {i \in 1..Len(table) : KeyMatches(table[i].key, name)}
MalformedAt(table) == {i \in 1..Len(table) : ~WellFormed(table[i].key)}

Least(S) == CHOOSE i \in S : \A j \in S : i <= j

\* A lookup of an identity that is no exact key of the table was the last call.
RegexLookup ==
    /\ last.op = "lookup"
    /\ \A i \in 1..Len(last.table) : last.table[i].key # last.name

\* C7, as stated: when the identity is no exact key, the lookup returns the rule
\* of the first key in iteration order whose pattern matches a prefix of it.
C7_FirstMatchingKeyWins ==
    (RegexLookup /\ MatchingAt(last.table, last.name) # {}) =>
        /\ last.outcome = "return"
        /\ last.value = last.table[Least(MatchingAt(last.table, last.name))].rule

\* C7, amended: the first matching key's rule is returned when every key before
\* it in iteration order is a valid pattern; when a key that is no valid pattern
\* comes before every matching key the lookup raises re.error.
C7_FirstMatchingKeyWinsIfCompiled ==
    (RegexLookup /\ MatchingAt(last.table, last.name) # {}) =>
        LET m   == Least(MatchingAt(last.table, last.name))
            bad == {i \in MalformedAt(last.table) : i < m}
        IN  IF bad = {}
            THEN /\ last.outcome = "return"
                 /\ last.value = last.table[m].rule
            ELSE last.outcome = "re.error"

\* C7's case: two keys match a prefix of an identity longer than the first of
\* them, and the first one's rule was returned.
C7_Witness ==
    /\ RegexLookup
    /\ Cardinality(MatchingAt(last.table, last.name)) >= 2
    /\ Len(last.table[1].key) < Len(last.name)
    /\ 1 \in MatchingAt(last.table, last.name)
    /\ last.outcome = "return"
    /\ last.value = last.table[1].rule

\* C8, as stated: when no key matches, exactly or as a pattern, the lookup
\* returns the rule under the default_inherits key if it is configured and in the
\* table, and None when none is configured.
C8_FallbackWhenNoMatch ==
    (RegexLookup /\ MatchingAt(last.table, last.name) = {}) =>
        /\ last.outcome = "return"
        /\ (default_inherits # <<>> /\ \E i \in 1..Len(last.table) :
                last.table[i].key = default_inherits) =>
              \E i \in 1..Len(last.table) :
                  /\ last.table[i].key = default_inherits
                  /\ last.value = last.table[i].rule
        /\ default_inherits = <<>> => last.value = None

\* C8, amended: the same when every key of the table is a valid pattern; when
\* one is not (and no key before it matched) the lookup raises re.error.
C8_FallbackWhenNoMatchAndAllCompile ==
    (RegexLookup /\ MatchingAt(last.table, last.name) = {}) =>
        IF MalformedAt(last.table) = {}
        THEN /\ last.outcome = "return"
             /\ (default_inherits # <<>> /\ \E i \in 1..Len(last.table) :
                     last.table[i].key = default_inherits) =>
                   \E i \in 1..Len(last.table) :
                       /\ last.table[i].key = default_inherits
                       /\ last.value = last.table[i].rule
             /\ default_inherits = <<>> => last.value = None
             /\ (\A i \in 1..Len(last.table) :
                     last.table[i].key # default_inherits) => last.value = None
        ELSE last.outcome = "re.error"

\* C8's case: no key matched, the fallback key is configured and in the table
\* after another key, and its rule was returned.
C8_Witness ==
    /\ RegexLookup
    /\ MatchingAt(last.table, last.name) = {}
    /\ Len(last.table) = 2
    /\ last.table[2].key = default_inherits
    /\ last.outcome = "return"
    /\ last.value = last.table[2].rule

\* C9: a lookup of an identity that is an exact key returns the rule stored under
\* that key and leaves the pattern-compilation cache as it found it, whatever the
\* other keys are.
C9_ExactKeyCompilesNothing ==
    \A i \in 1..(IF last.op = "lookup" THEN Len(last.table) ELSE 0) :
        last.table[i].key = last.name =>
            /\ last.outcome = "return"
            /\ last.value = last.table[i].rule
            /\ cache = last.before

\* C9's case: the identity is the second key, after a key that is no valid
\* pattern or one that matches it too, and the second key's rule was returned.
C9_Witness ==
    /\ last.op = "lookup"
    /\ Len(last.table) = 2
    /\ last.table[2].key = last.name
    /\ (1 \in MalformedAt(last.table) \/ 1 \in MatchingAt(last.table, last.name))
    /\ last.value = last.table[2].rule
    /\ DOMAIN cache = {}

\* --------------------------------------------------- claims on the mapper

\* The places of the destination table's entries the resource matches.
MatchedAt(r) ==
    {i \in 1..Len(destinations) :
        Matches(r, destinations[i], [resource |-> r])}

\* A call of map_to_destination that got as far as the selection was the last call.
Selected == last.op = "map" /\ last.evaluated # None

\* C1: when no entry of the destination table matches the evaluated resource,
\* map_to_destination raises JobMappingException with the evaluated resource's id
\* in its message and returns no destination.
C1_NoMatchRaisesMappingError ==
    (Selected /\ MatchedAt(last.evaluated) = {}) =>
        /\ last.outcome = "JobMappingException"
        /\ last.message = last.evaluated.id
        /\ last.result = None

\* C1's case: the table has entries, none matches the resource combined from a
\* tool rule and a user rule, and the call raised.
C1_Witness ==
    /\ Selected
    /\ Len(destinations) >= 1
    /\ Len(last.candidates) >= 2
    /\ MatchedAt(last.evaluated) = {}
    /\ last.outcome = "JobMappingException"

\* C2: a destination map_to_destination returns has the id of an entry of the
\* destination table that the evaluated resource matches; when exactly one entry
\* matches, it is the one returned, whatever the ranking.
C2_ReturnsMatchingEntry ==
    /\ (last.op = "map" /\ last.outcome = "return") =>
          \E i \in MatchedAt(last.evaluated) : destinations[i].id = last.result.id
    /\ (Selected /\ Cardinality(MatchedAt(last.evaluated)) = 1) =>
          /\ last.outcome = "return"
          /\ \A i \in MatchedAt(last.evaluated) :
                 last.result.id = destinations[i].id

\* C2's case: of two entries only the one ranked second matches, and it was returned.
C2_Witness ==
    /\ Selected
    /\ Len(destinations) = 2
    /\ Cardinality(MatchedAt(last.evaluated)) = 1
    /\ last.outcome = "return"
    /\ last.result.id = ranking[2]

\* Whether a lookup of name in table ends with None.
Absent(table, name) ==
    LET r == FindResourceByIdRegex(table, name, EmptyCache)
    IN  r.outcome = "return" /\ r.value = None

\* The tool lookup, the user lookup and every role lookup of the last call end
\* with None.
NothingResolves ==
    /\ last.op = "map"
    /\ Absent(tools, last.tool)
    /\ last.user # None =>
          /\ Absent(users, last.user.email)
          /\ \A i \in 1..Len(last.user.roles) :
                 ~last.user.roles[i].deleted => Absent(roles, last.user.roles[i].name)

\* C3, as stated: when no lookup resolves, the candidate list is empty and
\* map_to_destination fails at the combine step.
C3_EmptyListFailsAtCombine ==
    NothingResolves => (last.candidates = <<>> /\ last.step = "combine")

\* C4, as stated: a call of map_to_destination repeated with the same arguments,
\* on the same tables, returns what the first call returned.
C4_RepeatedCallSameResult ==
    (last.op = "map" /\ prev.op = "map") =>
        /\ last.outcome = prev.outcome
        /\ last.result = prev.result

\* ------------------------------------------------- claims on the resolver

\* What a lookup of name in table returns, a rule or None, when it returns.
Resolved(table, name) == FindResourceByIdRegex(table, name, EmptyCache).value

\* The places of the user's roles that are not deleted, and of those among them
\* whose name resolves to a rule.
LiveAt(user) == {i \in 1..Len(user.roles) : ~user.roles[i].deleted}
RuledAt(user) ==
    {i \in LiveAt(user) : Resolved(roles, user.roles[i].name) # None}

\* The names of the roles at the places S, in the order of the user's roles.
NamesAt(user, S) ==
    LET at == SelectSeq([i \in 1..Len(user.roles) |-> i], LAMBDA i : i \in S)
    IN  [k \in 1..Len(at) |-> user.roles[at[k]].name]

\* The role lookups the claim allows: the roles that are not deleted, up to the
\* first of them that has a rule.
LookupsAllowed(user) ==
    NamesAt(user, {i \in LiveAt(user) :
                      RuledAt(user) = {} \/ i <= Least(RuledAt(user))})

IsPrefix(s, t) == Len(s) <= Len(t) /\ s = SubSeq(t, 1, Len(s))

\* C5: the candidate list is what the tool lookup returned, then the user's rule
\* if the user's email resolves, then the rule of the first role, in the order
\* of the user's roles, that is not deleted and resolves, and nothing else; the
\* roles looked up are those that are not deleted, up to that one.
C5_CandidatesInPrecedenceOrder ==
    last.op = "resolve" =>
        /\ IF last.user = None THEN last.looked = <<>>
           ELSE IsPrefix(last.looked, LookupsAllowed(last.user))
        /\ last.outcome = "return" =>
              /\ last.value =
                    <<Resolved(tools, last.tool)>>
                    \o (IF last.user # None /\ Resolved(users, last.user.email) # None
                        THEN <<Resolved(users, last.user.email)>> ELSE <<>>)
                    \o (IF last.user # None /\ RuledAt(last.user) # {}
                        THEN <<Resolved(roles,
                                 last.user.roles[Least(RuledAt(last.user))].name)>>
                        ELSE <<>>)
              /\ last.user # None => last.looked = LookupsAllowed(last.user)

\* C5's case: the user's roles are a deleted one, one without a rule and one with
\* a rule; the list is the tool's rule, the user's and the third role's, and the
\* deleted role was not looked up.
C5_Witness ==
    /\ last.op = "resolve"
    /\ last.outcome = "return"
    /\ last.user # None
    /\ Len(last.user.roles) = 3
    /\ last.user.roles[1].deleted
    /\ RuledAt(last.user) = {3}
    /\ Len(last.value) = 3
    /\ Len(tools) = 1 /\ Len(users) = 1 /\ Len(roles) = 1
    /\ last.value[1] = tools[1].rule
    /\ last.value[2] = users[1].rule
    /\ last.value[3] = roles[1].rule
    /\ Len(last.looked) = 2

\* ------------------------------------------------- claims on the combiner

\* Whether a resource sets a field, to a literal or to an expression.
Sets(r, f) == f \in DOMAIN r.fields \/ f \in DOMAIN r.exprs

\* Whether two resources set a field to the same thing.
SameSetting(r, q, f) ==
    /\ f \in DOMAIN r.fields <=> f \in DOMAIN q.fields
    /\ f \in DOMAIN r.exprs <=> f \in DOMAIN q.exprs
    /\ f \in DOMAIN r.fields => r.fields[f] = q.fields[f]
    /\ f \in DOMAIN r.exprs => r.exprs[f] = q.exprs[f]

Greatest(S) == CHOOSE i \in S : \A j \in S : j <= i

\* C6: combine_resources gives each field the setting of the last candidate of
\* the list that sets it, and leaves unset a field no candidate sets; a list of
\* one candidate gives that candidate.
C6_LastSetterWins ==
    (last.op = "combined") =>
        /\ last.outcome = "return"
        /\ \A f \in {"cores", "mem"} :
              LET setters == {i \in 1..Len(last.list) : Sets(last.list[i], f)}
              IN  IF setters = {} THEN ~Sets(last.value, f)
                  ELSE SameSetting(last.value, last.list[Greatest(setters)], f)
        /\ Len(last.list) = 1 => last.value = last.list[1]

\* C6's case: {cores: 2, mem: 4} then {mem: 8} gave {cores: 2, mem: 8}.
C6_Witness ==
    /\ last.op = "combined"
    /\ Len(last.list) = 2
    /\ last.list[1].fields = ("cores" :> 2) @@ ("mem" :> 4)
    /\ last.list[2].fields = ("mem" :> 8)
    /\ last.value.fields = ("cores" :> 2) @@ ("mem" :> 8)

\* --------------------------------------------- claims on concurrent lookups

\* C10: under every interleaving of the threads' lookups, each entry of the
\* cache is the compilation of its own key, the table a lookup works on is the
\* table as it is, and a lookup that is back returns what it returns when run
\* alone on an empty cache.
C10_CacheSafeUnderRaces ==
    /\ \A k \in DOMAIN cache : cache[k] = CompileToolRegex(k) /\ cache[k] # BadPattern
    /\ \A t \in Threads :
          /\ thr[t].pc # "idle" => thr[t].table = tools
          /\ thr[t].pc = "done" =>
                LET alone == FindResourceByIdRegex(tools, thr[t].name, EmptyCache)
                IN  /\ thr[t].outcome = alone.outcome
                    /\ thr[t].value = alone.value

\* C10's case: two threads missed the same key and both compiled it; one has
\* stored its compilation and the other is about to store its own.
C10_Witness ==
    \E t, u \in Threads :
        /\ t # u
        /\ thr[t].pc = "store"
        /\ thr[u].pc = "match"
        /\ thr[t].i = thr[u].i
        /\ tools[thr[t].i].key \in DOMAIN cache

====
